---------------------------- MODULE Spec2Model ----------------------------
(***************************************************************************)
(* OAuth2 login / callback resources of fence/blueprints/login/base.py.    *)
(*                                                                         *)
(* A Python str is a sequence of one-character strings, so that urlparse,  *)
(* parse_qsl, urlencode and str.split are computed character by character. *)
(* A dict is a function whose DOMAIN is its key set; a list of pairs is a  *)
(* sequence of 2-tuples.                                                   *)
(***************************************************************************)
EXTENDS Integers, Sequences, FiniteSets, TLC

\* Python None, where a str is expected
None == <<"<None>">>

\* truth value of an optional str: None and "" are falsy
Truthy(s) == s /= None /\ s /= <<>>

\* Python `a or b` on optional strs
Or(a, b) == IF Truthy(a) THEN a ELSE b

\* dict.get(key, default)
DictGet(d, key, default) == IF key \in DOMAIN d THEN d[key] ELSE default

----------------------------------------------------------------------------
(* str and urllib.parse helpers                                            *)

RECURSIVE IndexFrom(_, _, _)
\* position of the first c in s at or after i, 0 when there is none
IndexFrom(s, c, i) ==
    IF i > Len(s) THEN 0
    ELSE IF s[i] = c THEN i
    ELSE IndexFrom(s, c, i + 1)

\* s.split(c)[0], also s.split(c, 1)[0]
Before(s, c) ==
    LET i == IndexFrom(s, c, 1)
    IN  IF i = 0 THEN s ELSE SubSeq(s, 1, i - 1)

\* s.split(c, 1)[1], "" when c does not occur
After(s, c) ==
    LET i == IndexFrom(s, c, 1)
    IN  IF i = 0 THEN <<>> ELSE SubSeq(s, i + 1, Len(s))

RECURSIVE split(_, _)
\* s.split(c)
split(s, c) ==
    LET i == IndexFrom(s, c, 1)
    IN  IF i = 0 THEN <<s>>
        ELSE <<SubSeq(s, 1, i - 1)>> \o split(SubSeq(s, i + 1, Len(s)), c)

\* urlparse(url).query: the fragment is cut at the first "#", then the
\* query is what follows the first "?" of the rest
urlparse_query(url) == After(Before(url, "#"), "?")

\* characters urllib percent-encodes, with their two hex digits
PercentCode(c) ==
    CASE c = "/" -> <<"2", "F">>
      [] c = ":" -> <<"3", "A">>
      [] c = "?" -> <<"3", "F">>
      [] c = "&" -> <<"2", "6">>
      [] c = "=" -> <<"3", "D">>
      [] c = "#" -> <<"2", "3">>
      [] c = "%" -> <<"2", "5">>
      [] c = "+" -> <<"2", "B">>
      [] c = "@" -> <<"4", "0">>
      [] OTHER   -> <<>>

Reserved == {"/", ":", "?", "&", "=", "#", "%", "+", "@"}

RECURSIVE unquote(_)
\* urllib.parse.unquote: "%XX" becomes the character, anything else stays
unquote(s) ==
    IF s = <<>> THEN <<>>
    ELSE IF s[1] = "%" /\ Len(s) >= 3
            /\ \E c \in Reserved : PercentCode(c) = <<s[2], s[3]>>
         THEN <<CHOOSE c \in Reserved : PercentCode(c) = <<s[2], s[3]>>>>
              \o unquote(SubSeq(s, 4, Len(s)))
         ELSE <<s[1]>> \o unquote(Tail(s))

\* s.replace("+", " ")
PlusToSpace(s) == [i \in 1..Len(s) |-> IF s[i] = "+" THEN " " ELSE s[i]]

RECURSIVE quote_plus(_)
\* urllib.parse.quote_plus: space becomes "+", reserved characters "%XX"
quote_plus(s) ==
    IF s = <<>> THEN <<>>
    ELSE (IF s[1] = " " THEN <<"+">>
          ELSE IF s[1] \in Reserved THEN <<"%">> \o PercentCode(s[1])
          ELSE <<s[1]>>) \o quote_plus(Tail(s))

RECURSIVE parse_fields(_)
\* the loop of parse_qsl over the "&"-separated fields
parse_fields(fields) ==
    IF fields = <<>> THEN <<>>
    ELSE LET nv == Head(fields)
         IN  (IF nv = <<>> THEN <<>>
              ELSE << <<unquote(PlusToSpace(Before(nv, "="))),
                        unquote(PlusToSpace(After(nv, "=")))>> >>)
             \o parse_fields(Tail(fields))

\* parse_qsl(qs, keep_blank_values=True)
parse_qsl(qs) == parse_fields(split(qs, "&"))

RECURSIVE urlencode(_)
\* urlencode(list of pairs)
urlencode(pairs) ==
    IF pairs = <<>> THEN <<>>
    ELSE quote_plus(pairs[1][1]) \o <<"=">> \o quote_plus(pairs[1][2])
         \o (IF Len(pairs) = 1 THEN <<>> ELSE <<"&">> \o urlencode(Tail(pairs)))

RECURSIVE dict_get(_, _)
\* dict(pairs).get(key): the last pair with that key wins
dict_get(pairs, key) ==
    IF pairs = <<>> THEN None
    ELSE IF pairs[Len(pairs)][1] = key THEN pairs[Len(pairs)][2]
    ELSE dict_get(SubSeq(pairs, 1, Len(pairs) - 1), key)

RECURSIVE args_get(_, _)
\* flask.request.args.get(key): the first value of a MultiDict
args_get(pairs, key) ==
    IF pairs = <<>> THEN None
    ELSE IF pairs[1][1] = key THEN pairs[1][2]
    ELSE args_get(Tail(pairs), key)

----------------------------------------------------------------------------
(* Strings of the deployment and of the requests                           *)

\* "https://fence"
BASE_URL ==
    <<"h", "t", "t", "p", "s", ":", "/", "/", "f", "e", "n", "c", "e">>

\* "/register"
REGISTER_PATH ==
    <<"/", "r", "e", "g", "i", "s", "t", "e", "r">>

\* "https://idp/auth"
AUTH_URL ==
    <<"h", "t", "t", "p", "s", ":", "/", "/", "i", "d", "p", "/", "a", "u", "t", "h">>

\* "https://fence/login/google/callback"
CALLBACK_URL ==
    <<"h", "t", "t", "p", "s", ":", "/", "/", "f", "e", "n", "c", "e", "/", "l", "o", "g", "i",
      "n", "/", "g", "o", "o", "g", "l", "e", "/", "c", "a", "l", "l", "b", "a", "c", "k">>

\* "test@example.com"
BUILTIN_MOCK_USER ==
    <<"t", "e", "s", "t", "@", "e", "x", "a", "m", "p", "l", "e", ".", "c", "o", "m">>

\* "redirect_uri"
KEY_redirect_uri ==
    <<"r", "e", "d", "i", "r", "e", "c", "t", "_", "u", "r", "i">>

\* "redirect"
KEY_redirect ==
    <<"r", "e", "d", "i", "r", "e", "c", "t">>

\* "error"
KEY_error ==
    <<"e", "r", "r", "o", "r">>

\* "code"
KEY_code ==
    <<"c", "o", "d", "e">>

\* "https://app/cb?redirect_uri=https://app/done&state=xyz"
R_EMBED ==
    <<"h", "t", "t", "p", "s", ":", "/", "/", "a", "p", "p", "/", "c", "b", "?", "r", "e", "d",
      "i", "r", "e", "c", "t", "_", "u", "r", "i", "=", "h", "t", "t", "p", "s", ":", "/", "/",
      "a", "p", "p", "/", "d", "o", "n", "e", "&", "s", "t", "a", "t", "e", "=", "x", "y", "z">>

\* "https://app/cb?redirect_uri=https://app/done&redirect_uri="
R_DUP ==
    <<"h", "t", "t", "p", "s", ":", "/", "/", "a", "p", "p", "/", "c", "b", "?", "r", "e", "d",
      "i", "r", "e", "c", "t", "_", "u", "r", "i", "=", "h", "t", "t", "p", "s", ":", "/", "/",
      "a", "p", "p", "/", "d", "o", "n", "e", "&", "r", "e", "d", "i", "r", "e", "c", "t", "_",
      "u", "r", "i", "=">>

\* "https://app/cb#top"
R_FRAG ==
    <<"h", "t", "t", "p", "s", ":", "/", "/", "a", "p", "p", "/", "c", "b", "#", "t", "o", "p">>

\* "https://app/cb?error=old&flag&&redirect_uri=https%3A%2F%2Fapp%2Fdone%3Fz%3D1+2"
R_EMBQ ==
    <<"h", "t", "t", "p", "s", ":", "/", "/", "a", "p", "p", "/", "c", "b", "?", "e", "r", "r",
      "o", "r", "=", "o", "l", "d", "&", "f", "l", "a", "g", "&", "&", "r", "e", "d", "i", "r",
      "e", "c", "t", "_", "u", "r", "i", "=", "h", "t", "t", "p", "s", "%", "3", "A", "%", "2",
      "F", "%", "2", "F", "a", "p", "p", "%", "2", "F", "d", "o", "n", "e", "%", "3", "F", "z",
      "%", "3", "D", "1", "+", "2">>

\* "https://evil/x"
R_EVIL ==
    <<"h", "t", "t", "p", "s", ":", "/", "/", "e", "v", "i", "l", "/", "x">>

\* "code=c1"
Q_CODE ==
    <<"c", "o", "d", "e", "=", "c", "1">>

\* "error=access_denied"
Q_ERR ==
    <<"e", "r", "r", "o", "r", "=", "a", "c", "c", "e", "s", "s", "_", "d", "e", "n", "i", "e",
      "d">>

\* "error=denied&state=xyz&error="
Q_ERR_DUP ==
    <<"e", "r", "r", "o", "r", "=", "d", "e", "n", "i", "e", "d", "&", "s", "t", "a", "t", "e",
      "=", "x", "y", "z", "&", "e", "r", "r", "o", "r", "=">>

\* "error=&error=denied"
Q_BLANK_FIRST ==
    <<"e", "r", "r", "o", "r", "=", "&", "e", "r", "r", "o", "r", "=", "d", "e", "n", "i", "e",
      "d">>
\* "a@x.com"
USER_A ==
    <<"a", "@", "x", ".", "c", "o", "m">>

\* "b@x.com"
USER_B ==
    <<"b", "@", "x", ".", "c", "o", "m">>

\* "dev_login"
DEV_LOGIN ==
    <<"d", "e", "v", "_", "l", "o", "g", "i", "n">>

\* "email"
FIELD_email ==
    <<"e", "m", "a", "i", "l">>

\* "name"
FIELD_name ==
    <<"n", "a", "m", "e">>

\* "shibboleth"
FENCE_IDP ==
    <<"s", "h", "i", "b", "b", "o", "l", "e", "t", "h">>

\* "urn:idp"
SHIB_IDP ==
    <<"u", "r", "n", ":", "i", "d", "p">>

\* "client1"
CLIENT_ID ==
    <<"c", "l", "i", "e", "n", "t", "1">>

\* "registered"
REG_INFO ==
    <<"r", "e", "g", "i", "s", "t", "e", "r", "e", "d">>
----------------------------------------------------------------------------
(* State                                                                   *)

VARIABLES
    config,              \* fence.config.config, read-only after start-up
    session,             \* flask.session of the browser session
    users,               \* rows of the User table (durable store)
    flask_redirect_url,  \* the attribute `redirect_url` set on the flask module
    g,                   \* flask.g of the request that ran last
    request,             \* the request that ran last
    calls,               \* collaborator calls made by the request that ran last
    response,            \* what the request that ran last returned or raised
    nrequests,           \* number of requests served so far
    idps,                \* committed rows of the IdentityProvider table
    idp_to_users,        \* committed rows of the IdPToUser table, in insertion order
    bind,                \* the map_user_idp_info call each worker is in
    nbinds,              \* number of map_user_idp_info calls started so far
    logins               \* the login start each worker thread is in, line by line

\* state of the login and callback resources
login_vars == <<config, session, users, flask_redirect_url, g, request, calls, response,
                nrequests>>

\* state of map_user_idp_info and of the tables it writes
bind_vars == <<idps, idp_to_users, bind, nbinds>>

\* state of login starts that run on concurrent threads
thread_vars == <<logins>>

vars == <<login_vars, bind_vars, thread_vars>>

\* requests explored per behaviour
MaxRequests == 2

\* self.idp_name of both resources
idp_name == "Google"

\* str.lower() / str.upper() of the provider name
lower(name) == CASE name = "Google" -> "google" [] OTHER -> name
upper(name) == CASE name = "Google" -> "GOOGLE" [] OTHER -> name

\* "MOCK_{}_AUTH".format(name)
MOCK_AUTH_key(name) == CASE name = "GOOGLE" -> "MOCK_GOOGLE_AUTH" [] OTHER -> "MOCK__AUTH"

\* a dict without keys
EmptyDict == [k \in {} |-> None]

\* flask.g before anything is set on it
NoUser == [username |-> None, id |-> 0, additional_info |-> [registration_info |-> None]]
NoAudit == [username |-> None, sub |-> 0, idp |-> "", fence_idp |-> None,
            shib_idp |-> None, client_id |-> None]
FreshG == [user |-> NoUser, audit_data |-> NoAudit]

NoCalls == [get_auth_url |-> 0, get_user_id |-> <<>>, login_user |-> <<>>]
NoResponse == [kind |-> "none", location |-> None, username |-> None,
               exception |-> "", payload |-> <<>>]
NoRequest == [endpoint |-> "none", args |-> <<>>, cookies |-> <<>>, url |-> None,
              username_field |-> None, email_field |-> None]

\* the mutable world a handler runs in: the durable and session state, and
\* the request-scoped flask.g, call log and response
World == [session |-> session, users |-> users, flask_redirect_url |-> flask_redirect_url,
          g |-> FreshG, calls |-> NoCalls, response |-> NoResponse]

\* raise exc(payload)
Raise(w, exc, payload) ==
    [w EXCEPT !.response = [kind |-> "raised", location |-> None, username |-> None,
                            exception |-> exc, payload |-> payload]]

\* flask.redirect(location)
flask_redirect(w, location) ==
    [w EXCEPT !.response = [kind |-> "redirect", location |-> location, username |-> None,
                            exception |-> "", payload |-> <<>>]]

\* flask.jsonify({"username": username})
flask_jsonify(w, username) ==
    [w EXCEPT !.response = [kind |-> "json", location |-> None, username |-> username,
                            exception |-> "", payload |-> <<>>]]

Raised(w) == w.response.kind = "raised"

----------------------------------------------------------------------------
(* Collaborators                                                           *)

\* redirect targets on the allow-list of the deployment
AllowedRedirects == {R_EMBED, R_DUP, R_FRAG, R_EMBQ}

\* fence.blueprints.login.redirect.validate_redirect: TRUE when it returns,
\* FALSE when it raises
validate_redirect(url) == ~Truthy(url) \/ url \in AllowedRedirects

\* fence.auth.login_user: find or create the user and make it flask.g.user;
\* fails only on a storage fault
login_user(w, username, provider, email, env) ==
    LET logged == [w EXCEPT !.calls.login_user =
                       Append(@, <<username, provider, email, env.storage_ok>>)]
        found  == {u \in w.users : u.username = username}
        user   == IF found /= {} THEN CHOOSE u \in found : TRUE
                  ELSE [username |-> username, id |-> Cardinality(w.users) + 1,
                        additional_info |-> [registration_info |-> None]]
    IN  IF ~env.storage_ok THEN Raise(logged, "StorageFault", <<>>)
        ELSE [logged EXCEPT !.users = w.users \cup {user}, !.g.user = user]

\* self.client.get_auth_url()
get_auth_url(w) == [w EXCEPT !.calls.get_auth_url = @ + 1]

\* self.client.get_user_id(code): the payload of the exchange, or a failure
get_user_id(w, code, env) ==
    LET logged == [w EXCEPT !.calls.get_user_id =
                       Append(@, <<code, env.exchange_ok, env.exchange_result>>)]
    IN  IF env.exchange_ok THEN logged ELSE Raise(logged, "ExchangeError", <<>>)

\* flask.url_for("register.register_user")
url_for_register == REGISTER_PATH

----------------------------------------------------------------------------
(* fence/blueprints/login/base.py                                          *)

\* prepare_login_log
prepare_login_log(w, idp) ==
    [w EXCEPT !.g.audit_data =
        [username  |-> w.g.user.username,
         sub       |-> w.g.user.id,
         idp       |-> idp,
         fence_idp |-> w.session.fence_idp,
         shib_idp  |-> w.session.shib_idp,
         client_id |-> w.session.client_id]]

\* variant: the saved redirect is served before the registration check
login_response_redirect_first(w, username) ==
    IF Truthy(w.session.redirect)
    THEN flask_redirect(w, w.session.redirect)
    ELSE IF config["REGISTER_USERS_ON"]
            /\ ~Truthy(DictGet(w.g.user.additional_info, "registration_info", None))
    THEN flask_redirect(w, config["BASE_URL"] \o url_for_register)
    ELSE flask_jsonify(w, username)

\* variant: the redirect of this request is served, not the one of the session
login_response_request_redirect(w, username) ==
    IF config["REGISTER_USERS_ON"]
       /\ ~Truthy(DictGet(w.g.user.additional_info, "registration_info", None))
    THEN flask_redirect(w, config["BASE_URL"] \o url_for_register)
    ELSE IF Truthy(w.flask_redirect_url)
    THEN flask_redirect(w, w.flask_redirect_url)
    ELSE flask_jsonify(w, username)

\* the response of _login once login_user has returned
login_response(w, username) ==
    IF config["REGISTER_USERS_ON"]
       /\ ~Truthy(DictGet(w.g.user.additional_info, "registration_info", None))
    THEN flask_redirect(w, config["BASE_URL"] \o url_for_register)
    ELSE IF Truthy(w.session.redirect)
    THEN flask_redirect(w, w.session.redirect)
    ELSE flask_jsonify(w, username)

\* _login
_login(w, username, idp, email, env) ==
    LET w1 == login_user(w, username, idp, email, env)
    IN  IF Raised(w1) THEN w1 ELSE login_response(w1, username)

\* DefaultOAuth2Login.get, lines 28-30
store_redirect(w, redirect_url) ==
    LET w1 == [w EXCEPT !.flask_redirect_url = redirect_url]
    IN  IF Truthy(w1.flask_redirect_url)
        THEN [w1 EXCEPT !.session.redirect = w1.flask_redirect_url]
        ELSE w1

\* DefaultOAuth2Login.get, lines 32-45
mock_login ==
    DictGet(DictGet(config["OPENID_CONNECT"], lower(idp_name), EmptyDict), "mock", FALSE)
legacy_mock_login ==
    DictGet(config, MOCK_AUTH_key(upper(idp_name)), FALSE)
mock_default_user ==
    DictGet(DictGet(config["OPENID_CONNECT"], lower(idp_name), EmptyDict),
            "mock_default_user", BUILTIN_MOCK_USER)

\* flask.request.cookies.get(name, default)
cookies_get(cookies, name, default) ==
    IF \E i \in 1..Len(cookies) : cookies[i][1] = name
    THEN args_get(cookies, name)
    ELSE default

\* variant: the cookie is tested for truth instead of presence
mock_username_truthy(req) ==
    Or(cookies_get(req.cookies, DictGet(config, "DEV_LOGIN_COOKIE_NAME", None), None),
       mock_default_user)

\* DefaultOAuth2Login.get, lines 49-51
mock_username(req) ==
    cookies_get(req.cookies, DictGet(config, "DEV_LOGIN_COOKIE_NAME", None),
                mock_default_user)

\* variant: the authorization URL is fetched before the mock decision
login_dispatch_auth_first(w, req, env) ==
    LET w1 == get_auth_url(w)
    IN  IF mock_login \/ legacy_mock_login
        THEN LET resp == _login(w1, mock_username(req), idp_name, None, env)
             IN  IF Raised(resp) THEN resp ELSE prepare_login_log(resp, idp_name)
        ELSE flask_redirect(w1, AUTH_URL)

\* DefaultOAuth2Login.get, lines 47-56
login_dispatch(w, req, env) ==
    IF mock_login \/ legacy_mock_login
    THEN LET resp == _login(w, mock_username(req), idp_name, None, env)
         IN  IF Raised(resp) THEN resp ELSE prepare_login_log(resp, idp_name)
    ELSE flask_redirect(get_auth_url(w), AUTH_URL)

\* variant: the redirect is stored before it is validated
DefaultOAuth2Login_get_store_first(w, req, env) ==
    LET redirect_url == args_get(req.args, KEY_redirect)
        w1 == store_redirect(w, redirect_url)
    IN  IF ~validate_redirect(redirect_url)
        THEN Raise(w1, "InvalidRedirect", <<>>)
        ELSE login_dispatch(w1, req, env)

\* DefaultOAuth2Login.get
DefaultOAuth2Login_get(w, req, env) ==
    LET redirect_url == args_get(req.args, KEY_redirect)
    IN  IF ~validate_redirect(redirect_url)
        THEN Raise(w, "InvalidRedirect", <<>>)
        ELSE login_dispatch(store_redirect(w, redirect_url), req, env)

\* DefaultOAuth2Callback.get, line 86
original_target(sess) == Or(sess.redirect, config["BASE_URL"])

\* DefaultOAuth2Callback.get, lines 87-89
redirect_query_params(sess) == parse_qsl(urlparse_query(original_target(sess)))

\* DefaultOAuth2Callback.get, lines 83-85
received_query_params(request_url) == parse_qsl(urlparse_query(request_url))

\* variant: an embedded redirect_uri is ignored
redirect_uri_not_extracted(sess) == original_target(sess)

\* DefaultOAuth2Callback.get, lines 90-92
redirect_uri(sess) ==
    Or(dict_get(redirect_query_params(sess), KEY_redirect_uri), original_target(sess))

\* DefaultOAuth2Callback.get, lines 94-96
final_query_params(request_url, sess) ==
    urlencode(redirect_query_params(sess) \o received_query_params(request_url))

\* DefaultOAuth2Callback.get, line 97
final_redirect_url(request_url, sess) ==
    Before(redirect_uri(sess), "?") \o <<"?">> \o final_query_params(request_url, sess)

\* DefaultOAuth2Callback.post_login
\* the hook that builds no audit context
post_login_skipped(w) == w

post_login(w) == prepare_login_log(w, idp_name)

\* variant: a missing username falls back to the email field's value or ""
callback_success_defaulted(w, req, env) ==
    LET code == args_get(req.args, KEY_code)
        w1   == get_user_id(w, code, env)
        result   == env.exchange_result
        email    == dict_get(result, req.email_field)
        username == Or(dict_get(result, req.username_field), Or(email, <<>>))
    IN  IF Raised(w1) THEN w1
        ELSE LET resp == _login(w1, username, idp_name, email, env)
             IN  IF Raised(resp) THEN resp ELSE post_login(resp)

\* DefaultOAuth2Callback.get, lines 101-109
\* the success branch that asks the IdP a second time when the exchange fails
callback_success_retried(w, req, env) ==
    LET code == args_get(req.args, KEY_code)
        w0   == get_user_id(w, code, env)
        w1   == IF Raised(w0)
                THEN get_user_id([w0 EXCEPT !.response = NoResponse], code, env)
                ELSE w0
        result   == env.exchange_result
        username == dict_get(result, req.username_field)
        email    == dict_get(result, req.email_field)
    IN  IF Raised(w1) THEN w1
        ELSE IF Truthy(username)
        THEN LET resp == _login(w1, username, idp_name, email, env)
             IN  IF Raised(resp) THEN resp ELSE post_login(resp)
        ELSE Raise(w1, "UserError", result)

callback_success(w, req, env) ==
    LET code == args_get(req.args, KEY_code)
        w1   == get_user_id(w, code, env)
        result   == env.exchange_result
        username == dict_get(result, req.username_field)
        email    == dict_get(result, req.email_field)
    IN  IF Raised(w1) THEN w1
        ELSE IF Truthy(username)
        THEN LET resp == _login(w1, username, idp_name, email, env)
             IN  IF Raised(resp) THEN resp ELSE post_login(resp)
        ELSE Raise(w1, "UserError", result)

\* variant: the code is exchanged before the error marker is looked at
DefaultOAuth2Callback_get_exchange_first(w, req, env) ==
    LET w1 == get_user_id(w, args_get(req.args, KEY_code), env)
    IN  IF Truthy(args_get(req.args, KEY_error))
        THEN flask_redirect(w1, final_redirect_url(req.url, w1.session))
        ELSE callback_success(w, req, env)

\* DefaultOAuth2Callback.get
DefaultOAuth2Callback_get(w, req, env) ==
    IF Truthy(args_get(req.args, KEY_error))
    THEN flask_redirect(w, final_redirect_url(req.url, w.session))
    ELSE callback_success(w, req, env)

----------------------------------------------------------------------------
(* Requests and environment                                                *)

\* OPENID_CONNECT sections of the configurations explored
OpenIdConnectChoices ==
    << EmptyDict,
       [google |-> [mock |-> FALSE, mock_default_user |-> USER_A]],
       [google |-> [mock |-> TRUE, mock_default_user |-> USER_A]] >>

BaseConfig(oc, reg) ==
    [OPENID_CONNECT |-> oc, REGISTER_USERS_ON |-> reg, BASE_URL |-> BASE_URL,
     DEV_LOGIN_COOKIE_NAME |-> DEV_LOGIN]

LegacyConfig(oc, reg, legacy) ==
    [OPENID_CONNECT |-> oc, REGISTER_USERS_ON |-> reg, BASE_URL |-> BASE_URL,
     DEV_LOGIN_COOKIE_NAME |-> DEV_LOGIN, MOCK_GOOGLE_AUTH |-> legacy]

\* the `redirect` argument of a login request: absent, empty, allowed, refused
LoginArgs ==
    { <<>>, << <<KEY_redirect, <<>>>> >> }
    \cup { << <<KEY_redirect, u>> >> : u \in AllowedRedirects \cup {R_EVIL} }

\* cookies of a login request: none, the dev cookie, the dev cookie left empty
LoginCookies ==
    { <<>>, << <<DEV_LOGIN, USER_B>> >>, << <<DEV_LOGIN, <<>>>> >> }

\* query strings of a callback request
CallbackQueries == {Q_CODE, Q_ERR, Q_ERR_DUP, Q_BLANK_FIRST}

\* (username_field, email_field) of the callback resources registered
CallbackFields == { <<FIELD_email, FIELD_email>>, <<FIELD_name, FIELD_email>> }

\* payloads the code exchange returns, as the items of the dict
ExchangePayloads ==
    { <<>>,
      << <<FIELD_email, USER_B>>, <<FIELD_name, USER_A>> >>,
      << <<FIELD_email, <<>>>> >> }

\* what the collaborators do during a login request: the user store works or faults
LoginEnvs ==
    [exchange_ok : {TRUE}, exchange_result : {<<>>}, storage_ok : BOOLEAN]

\* what the collaborators do during a callback request: the exchange returns a
\* payload or fails, and the user store works or faults
CallbackEnvs ==
    [exchange_ok : {TRUE}, exchange_result : ExchangePayloads, storage_ok : {TRUE}]
    \cup { [exchange_ok |-> FALSE, exchange_result |-> <<>>, storage_ok |-> TRUE],
           [exchange_ok |-> TRUE,
            exchange_result |-> << <<FIELD_email, USER_B>>, <<FIELD_name, USER_A>> >>,
            storage_ok |-> FALSE] }

\* the environment of a request that asks no collaborator
QuietEnv == [exchange_ok |-> TRUE, exchange_result |-> <<>>, storage_ok |-> TRUE]

\* session markers written by other parts of the application
SessionMarkers ==
    [fence_idp |-> FENCE_IDP, shib_idp |-> SHIB_IDP, client_id |-> CLIENT_ID]

\* users present before the first request
InitialUsers ==
    { [username |-> USER_B, id |-> 1,
       additional_info |-> [registration_info |-> REG_INFO]] }

----------------------------------------------------------------------------
(* map_user_idp_info: the IdentityProvider and IdPToUser tables            *)

\* calls of map_user_idp_info a behaviour starts
MaxBinds == 3

\* requests that may be inside map_user_idp_info at the same time
NumWorkers == 2

Workers == 1..NumWorkers

\* "google"
PROVIDER_google == <<"g","o","o","g","l","e">>

\* "ras"
PROVIDER_ras == <<"r","a","s">>

\* "s1"
SUB_s1 == <<"s","1">>

\* "s2"
SUB_s2 == <<"s","2">>

\* no row: the result of first() on an empty query, an object not yet built
NoIdp == [id |-> 0, name |-> None, description |-> ""]

NoIdPToUser == [sub |-> None, fk_to_idp |-> 0, fk_to_User |-> 0, extra_info |-> None]

\* a worker that is in no call
NoBind ==
    [pc |-> "idle", user_id |-> 0, idp_sub |-> None, provider |-> None,
     extra_info |-> None, idp |-> NoIdp, user_to_idp |-> NoIdPToUser, exception |-> ""]

\* the store refuses a second IdentityProvider row of one name
NameTaken(name) == \E row \in idps : row.name = name

\* the store refuses a second IdPToUser row of one sub
SubTaken(sub) == \E i \in 1..Len(idp_to_users) : idp_to_users[i].sub = sub

\* the id the store gives the next IdentityProvider row
NextIdpId ==
    IF idps = {} THEN 1
    ELSE 1 + (CHOOSE n \in {row.id : row \in idps} : \A row \in idps : row.id <= n)

\* current_session.query(IdentityProvider).filter(name == provider).first()
query_idp(provider) ==
    IF \E row \in idps : row.name = provider
    THEN CHOOSE row \in idps : row.name = provider
    ELSE NoIdp

\* IdentityProvider(name=provider, description="IdP from foreign Passport")
IdentityProvider(provider) ==
    [id |-> 0, name |-> provider, description |-> "IdP from foreign Passport"]

\* "{}_{}".format(provider, idp_sub)
format_sub(provider, idp_sub) == provider \o <<"_">> \o idp_sub

\* IdPToUser(sub=..., fk_to_idp=idp_id, fk_to_User=user_id, extra_info=extra_info)
\* the row without the provider prefix in its sub
IdPToUser_bare_sub(b) ==
    [sub |-> b.idp_sub, fk_to_idp |-> b.idp.id,
     fk_to_User |-> b.user_id, extra_info |-> b.extra_info]

\* the row with its two foreign keys exchanged
IdPToUser_swapped_fk(b) ==
    [sub |-> format_sub(b.provider, b.idp_sub), fk_to_idp |-> b.user_id,
     fk_to_User |-> b.idp.id, extra_info |-> b.extra_info]

IdPToUser(b) ==
    [sub |-> format_sub(b.provider, b.idp_sub), fk_to_idp |-> b.idp.id,
     fk_to_User |-> b.user_id, extra_info |-> b.extra_info]

\* arguments of the calls
BindUsers == {1, 2}

BindSubjects == {SUB_s1, SUB_s2}

BindProviders == {PROVIDER_google, PROVIDER_ras}

\* providers known before the first call
InitialIdps == { [id |-> 1, name |-> PROVIDER_google, description |-> "Google"] }

\* the tables and the workers before the first call
BindInit ==
    /\ idps = InitialIdps
    /\ idp_to_users = <<>>
    /\ bind = [t \in Workers |-> NoBind]
    /\ nbinds = 0

\* the call begins and looks the provider up
BindQuery(t) ==
    /\ bind[t].pc \in {"idle", "returned", "raised"}
    /\ nbinds < MaxBinds
    /\ nbinds' = nbinds + 1
    /\ \E user_id \in BindUsers, idp_sub \in BindSubjects, provider \in BindProviders :
          bind' = [bind EXCEPT ![t] =
                      [NoBind EXCEPT !.pc = "queried", !.user_id = user_id,
                                     !.idp_sub = idp_sub, !.provider = provider,
                                     !.idp = query_idp(provider)]]
    /\ UNCHANGED <<idps, idp_to_users, login_vars, thread_vars>>

\* if not idp: idp = IdentityProvider(...); current_session.add(idp)
BindAddIdp(t) ==
    /\ bind[t].pc = "queried"
    /\ bind[t].idp = NoIdp
    /\ bind' = [bind EXCEPT ![t].pc = "idp_added",
                            ![t].idp = IdentityProvider(bind[t].provider)]
    /\ UNCHANGED <<idps, idp_to_users, nbinds, login_vars, thread_vars>>

\* current_session.commit() of the new IdentityProvider row
BindCommitIdp(t) ==
    /\ bind[t].pc = "idp_added"
    /\ IF NameTaken(bind[t].idp.name)
       THEN /\ bind' = [bind EXCEPT ![t].pc = "raised",
                                    ![t].exception = "StorageConflict"]
            /\ UNCHANGED idps
       ELSE LET row == [bind[t].idp EXCEPT !.id = NextIdpId]
            IN  /\ idps' = idps \cup {row}
                /\ bind' = [bind EXCEPT ![t].pc = "idp_committed", ![t].idp = row]
    /\ UNCHANGED <<idp_to_users, nbinds, login_vars, thread_vars>>

\* idp_id = idp.id; user_id = user.id; user_to_idp = IdPToUser(...); add(user_to_idp)
BindAddIdPToUser(t) ==
    /\ \/ bind[t].pc = "idp_committed"
       \/ bind[t].pc = "queried" /\ bind[t].idp # NoIdp
    /\ bind' = [bind EXCEPT ![t].pc = "mapping_added",
                            ![t].user_to_idp = IdPToUser(bind[t])]
    /\ UNCHANGED <<idps, idp_to_users, nbinds, login_vars, thread_vars>>

\* current_session.commit() of the new IdPToUser row
BindCommitIdPToUser(t) ==
    /\ bind[t].pc = "mapping_added"
    /\ IF SubTaken(bind[t].user_to_idp.sub)
       THEN /\ bind' = [bind EXCEPT ![t].pc = "raised",
                                    ![t].exception = "StorageConflict"]
            /\ UNCHANGED idp_to_users
       ELSE /\ idp_to_users' = Append(idp_to_users, bind[t].user_to_idp)
            /\ bind' = [bind EXCEPT ![t].pc = "returned"]
    /\ UNCHANGED <<idps, nbinds, login_vars, thread_vars>>

\* one step of one call of map_user_idp_info
map_user_idp_info(t) ==
    \/ BindQuery(t)
    \/ BindAddIdp(t)
    \/ BindCommitIdp(t)
    \/ BindAddIdPToUser(t)
    \/ BindCommitIdPToUser(t)

----------------------------------------------------------------------------
(* DefaultOAuth2Login.get on concurrent threads: flask.redirect_url is an  *)
(* attribute of the flask module, shared by every thread of the process    *)

\* a thread that serves no request
NoThread ==
    [pc |-> "idle", args |-> <<>>, redirect_url |-> None, session_before |-> None,
     session |-> [redirect |-> None, fence_idp |-> None, shib_idp |-> None,
                  client_id |-> None],
     response |-> NoResponse]

\* the pending redirect a session holds when its request arrives
SessionRedirects == {None, R_DUP}

ThreadInit == logins = [t \in Workers |-> NoThread]

\* redirect_url = flask.request.args.get("redirect"); validate_redirect(redirect_url)
ThreadValidate(t) ==
    /\ logins[t].pc = "idle"
    /\ \E args \in LoginArgs, saved \in SessionRedirects :
          LET redirect_url == args_get(args, KEY_redirect)
              arrived == [NoThread EXCEPT !.args = args, !.redirect_url = redirect_url,
                                          !.session_before = saved,
                                          !.session.redirect = saved]
          IN  logins' = [logins EXCEPT ![t] =
                  IF validate_redirect(redirect_url)
                  THEN [arrived EXCEPT !.pc = "validated"]
                  ELSE [arrived EXCEPT !.pc = "raised",
                                       !.response = Raise(World, "InvalidRedirect",
                                                          <<>>).response]]
    /\ UNCHANGED <<login_vars, bind_vars>>

\* flask.redirect_url = redirect_url
ThreadAssign(t) ==
    /\ logins[t].pc = "validated"
    /\ flask_redirect_url' = logins[t].redirect_url
    /\ logins' = [logins EXCEPT ![t].pc = "assigned"]
    /\ UNCHANGED <<config, session, users, g, request, calls, response, nrequests,
                   bind_vars>>

\* if flask.redirect_url:
ThreadTest(t) ==
    /\ logins[t].pc = "assigned"
    /\ logins' = [logins EXCEPT ![t].pc =
                     IF Truthy(flask_redirect_url) THEN "tested" ELSE "stored"]
    /\ UNCHANGED <<login_vars, bind_vars>>

\* flask.session["redirect"] = flask.redirect_url
ThreadStore(t) ==
    /\ logins[t].pc = "tested"
    /\ logins' = [logins EXCEPT ![t].pc = "stored",
                                ![t].session.redirect = flask_redirect_url]
    /\ UNCHANGED <<login_vars, bind_vars>>

\* the rest of the handler: mock login or the redirect to the IdP
ThreadDispatch(t) ==
    /\ logins[t].pc = "stored"
    /\ LET req == [endpoint |-> "login", args |-> logins[t].args, cookies |-> <<>>,
                   url |-> None, username_field |-> None, email_field |-> None]
           w   == [World EXCEPT !.session.redirect = logins[t].session.redirect]
       IN  logins' = [logins EXCEPT ![t].pc = "answered",
                                    ![t].response = login_dispatch(w, req, QuietEnv).response]
    /\ UNCHANGED <<login_vars, bind_vars>>

\* one step of one thread's login start
ThreadLoginStart(t) ==
    \/ ThreadValidate(t)
    \/ ThreadAssign(t)
    \/ ThreadTest(t)
    \/ ThreadStore(t)
    \/ ThreadDispatch(t)

----------------------------------------------------------------------------
(* Specifications                                                          *)

\* the session, the users and the request context before the first request
NoRequestYet ==
    /\ session = [redirect |-> None, fence_idp |-> SessionMarkers.fence_idp,
                  shib_idp |-> SessionMarkers.shib_idp,
                  client_id |-> SessionMarkers.client_id]
    /\ users = InitialUsers
    /\ flask_redirect_url = None
    /\ g = FreshG
    /\ request = NoRequest
    /\ calls = NoCalls
    /\ response = NoResponse
    /\ nrequests = 0

\* the login resources before the first request
LoginInit ==
    /\ \E i \in 1..Len(OpenIdConnectChoices), reg \in BOOLEAN :
          \/ config = BaseConfig(OpenIdConnectChoices[i], reg)
          \/ config = LegacyConfig(OpenIdConnectChoices[i], reg, TRUE)
    /\ NoRequestYet

Init == LoginInit /\ BindInit /\ ThreadInit

\* the handler's effects become the next state
Commit(w, req) ==
    /\ nrequests < MaxRequests
    /\ nrequests' = nrequests + 1
    /\ session' = w.session
    /\ users' = w.users
    /\ flask_redirect_url' = w.flask_redirect_url
    /\ g' = w.g
    /\ calls' = w.calls
    /\ response' = w.response
    /\ request' = req
    /\ UNCHANGED <<config, bind_vars, thread_vars>>

\* GET /login/<idp>?redirect=...
\* (a fault of the user store is drawn only where mock mode consults it)
LoginStart ==
    \E args \in LoginArgs, cookies \in LoginCookies, env \in LoginEnvs :
        LET req == [endpoint |-> "login", args |-> args, cookies |-> cookies,
                    url |-> None, username_field |-> None, email_field |-> None]
        IN  /\ env.storage_ok \/ mock_login \/ legacy_mock_login
            /\ Commit(DefaultOAuth2Login_get(World, req, env), req)

\* GET /login/<idp>/callback?code=...|error=...
\* (the collaborators' answers vary only where the query lets them be asked)
Callback ==
    \E query \in CallbackQueries, fields \in CallbackFields, env \in CallbackEnvs :
        LET req == [endpoint |-> "callback", args |-> parse_qsl(query), cookies |-> <<>>,
                    url |-> CALLBACK_URL \o <<"?">> \o query,
                    username_field |-> fields[1], email_field |-> fields[2]]
        IN  /\ env = QuietEnv \/ ~Truthy(args_get(req.args, KEY_error))
            /\ Commit(DefaultOAuth2Callback_get(World, req, env), req)

Next == LoginStart \/ Callback

Spec == Init /\ [][Next]_vars

\* the login resources at rest while map_user_idp_info runs
BindSpecInit ==
    /\ config = BaseConfig(EmptyDict, FALSE)
    /\ NoRequestYet
    /\ BindInit
    /\ ThreadInit

NextBind == \E t \in Workers : map_user_idp_info(t)

SpecBind == BindSpecInit /\ [][NextBind]_vars

NextThreads == \E t \in Workers : ThreadLoginStart(t)

\* login starts of one process on concurrent threads, mock login off
SpecThreads == BindSpecInit /\ [][NextThreads]_vars

----------------------------------------------------------------------------
(* Properties                                                              *)

\* the first value a list of pairs holds for a key, None when it holds none
FirstValue(pairs, key) ==
    LET I == {i \in 1..Len(pairs) : pairs[i][1] = key}
    IN  IF I = {} THEN None ELSE pairs[CHOOSE i \in I : \A j \in I : i <= j][2]

\* the last value a list of pairs holds for a key, None when it holds none
LastValue(pairs, key) ==
    LET I == {i \in 1..Len(pairs) : pairs[i][1] = key}
    IN  IF I = {} THEN None ELSE pairs[CHOOSE i \in I : \A j \in I : i >= j][2]

HasKey(pairs, key) == \E i \in 1..Len(pairs) : pairs[i][1] = key

\* the redirect argument of a login request
RedirectArg(req) == FirstValue(req.args, KEY_redirect)

\* the redirect argument is absent, empty or on the allow-list
RedirectAccepted(req) ==
    RedirectArg(req) \in {None, <<>>} \cup AllowedRedirects

\* mock mode is enabled by the per-provider flag or by the legacy flag
MockEnabled ==
    \/ /\ "google" \in DOMAIN config["OPENID_CONNECT"]
       /\ "mock" \in DOMAIN config["OPENID_CONNECT"]["google"]
       /\ config["OPENID_CONNECT"]["google"]["mock"]
    \/ /\ "MOCK_GOOGLE_AUTH" \in DOMAIN config
       /\ config["MOCK_GOOGLE_AUTH"]

\* the request ran no login: no user on flask.g, no audit context, no call
\* of the user store
NoLogin(gg, cc) ==
    gg.user = NoUser /\ gg.audit_data = NoAudit /\ cc.login_user = <<>>

\* C1: a login start whose redirect URL fails validation fails with that
\* failure and changes nothing: the session (its pending redirect included),
\* the users and flask.redirect_url keep their values, no login runs, no
\* audit context is built, the IdP client is not called and no redirect is
\* returned.
C1_InvalidRedirectChangesNothing ==
    [][ (request'.endpoint = "login" /\ ~RedirectAccepted(request'))
        => /\ response'.kind = "raised"
           /\ response'.exception = "InvalidRedirect"
           /\ session' = session
           /\ users' = users
           /\ flask_redirect_url' = flask_redirect_url
           /\ NoLogin(g', calls')
           /\ calls' = NoCalls ]_vars

\* a refused login start in a session that already holds a pending redirect
C1_Witness ==
    /\ request.endpoint = "login"
    /\ RedirectArg(request) = R_EVIL
    /\ response.kind = "raised"
    /\ session.redirect = R_EMBED

\* C2: with both mock flags false, a login start whose redirect passes
\* validation only redirects to the authorization URL: no login, no audit
\* context, and nothing but the session's pending redirect is written;
\* with either flag true the request takes the mock path.
C2_MockOnlyByConfiguration ==
    [][ (request'.endpoint = "login" /\ RedirectAccepted(request'))
        => IF MockEnabled
           THEN calls'.login_user /= <<>> /\ calls'.get_auth_url = 0
           ELSE /\ response'.kind = "redirect"
                /\ response'.location = AUTH_URL
                /\ NoLogin(g', calls')
                /\ users' = users
                /\ flask_redirect_url' = flask_redirect_url
                /\ session' = [session EXCEPT !.redirect = session'.redirect] ]_vars

\* the username mock mode logs in: the dev cookie when the request carries
\* it, else the configured default, else the built-in default
SyntheticUsername(req) ==
    IF HasKey(req.cookies, DEV_LOGIN) THEN FirstValue(req.cookies, DEV_LOGIN)
    ELSE IF /\ "google" \in DOMAIN config["OPENID_CONNECT"]
            /\ "mock_default_user" \in DOMAIN config["OPENID_CONNECT"]["google"]
         THEN config["OPENID_CONNECT"]["google"]["mock_default_user"]
         ELSE BUILTIN_MOCK_USER

\* the user store did not fault during the request
StorageWorked(cc) == \A i \in 1..Len(cc.login_user) : cc.login_user[i][4]

\* C3: in mock mode with an accepted redirect, login start never calls the
\* IdP client (neither get_auth_url nor the code exchange), and, the user
\* store working, it logs a user in and builds the audit context for that
\* user before it responds.
C3_MockLoginWithoutIdP ==
    (request.endpoint = "login" /\ MockEnabled /\ RedirectAccepted(request))
    => /\ calls.get_auth_url = 0
       /\ calls.get_user_id = <<>>
       /\ Len(calls.login_user) = 1
       /\ StorageWorked(calls)
          => /\ g.user /= NoUser
             /\ g.user.username = calls.login_user[1][1]
             /\ g.audit_data /= NoAudit
             /\ g.audit_data.username = g.user.username
             /\ response.kind \in {"redirect", "json"}

\* a completed mock login
C3_Witness ==
    /\ request.endpoint = "login"
    /\ MockEnabled
    /\ RedirectArg(request) = R_FRAG
    /\ g.user /= NoUser
    /\ g.audit_data /= NoAudit
    /\ calls.get_auth_url = 0

\* C4: in mock mode the user logged in is the dev cookie's value whenever
\* the request carries that cookie, whatever its value, and the configured
\* default (else the built-in one) only when it does not.
C4_CookieBeforeDefault ==
    (request.endpoint = "login" /\ MockEnabled /\ RedirectAccepted(request))
    => /\ Len(calls.login_user) = 1
       /\ calls.login_user[1][1] = SyntheticUsername(request)
       /\ StorageWorked(calls) => g.user.username = SyntheticUsername(request)

\* a mock login that carries the dev cookie while a different default is
\* configured
C4_Witness ==
    /\ request.endpoint = "login"
    /\ MockEnabled
    /\ HasKey(request.cookies, DEV_LOGIN)
    /\ "google" \in DOMAIN config["OPENID_CONNECT"]
    /\ "mock_default_user" \in DOMAIN config["OPENID_CONNECT"]["google"]
    /\ config["OPENID_CONNECT"]["google"]["mock_default_user"] = USER_A
    /\ g.user.username = USER_B


\* the callback took the error branch and did nothing but redirect
RedirectsOnly(gg, cc, resp) ==
    resp.kind = "redirect" /\ cc = NoCalls /\ gg = FreshG

\* C5 as claimed: whenever the callback query holds an `error` parameter,
\* the request only redirects: no code exchange, no login, no audit
\* context, no write to the users or the session.
C5_ErrorPresentRedirectsOnly ==
    [][ (request'.endpoint = "callback" /\ HasKey(request'.args, KEY_error))
        => /\ RedirectsOnly(g', calls', response')
           /\ users' = users
           /\ session' = session ]_vars

\* C5: whenever the first `error` parameter of the callback query has a
\* non-empty value, the request only redirects: no code exchange, no login,
\* no audit context, no write to the users or the session.
C5_ErrorValueRedirectsOnly ==
    [][ (request'.endpoint = "callback" /\ Truthy(FirstValue(request'.args, KEY_error)))
        => /\ RedirectsOnly(g', calls', response')
           /\ users' = users
           /\ session' = session ]_vars

\* an IdP error forwarded while the session holds a pending redirect
C5_Witness ==
    /\ request.endpoint = "callback"
    /\ Truthy(FirstValue(request.args, KEY_error))
    /\ response.kind = "redirect"
    /\ session.redirect = R_EMBQ

\* the last request was a callback that took the error branch
ErrorBranch ==
    request.endpoint = "callback" /\ response.kind = "redirect" /\ calls = NoCalls

\* the target the error branch starts from: the session's redirect if one
\* is set, else BASE_URL
OriginalTarget ==
    IF session.redirect \notin {None, <<>>} THEN session.redirect ELSE BASE_URL

\* the query parameters of a URL, in order
QueryParams(url) == parse_qsl(urlparse_query(url))

\* C6: in the error branch the query parameters of the redirect sent are
\* those of the stored target followed by those of the callback request,
\* duplicates kept, order kept.
C6_MergedQuery ==
    ErrorBranch
    => QueryParams(response.location)
       = QueryParams(OriginalTarget) \o QueryParams(request.url)

\* the non-empty redirect_uri values among the parameters of a URL
EmbeddedRedirectUris(url) ==
    {QueryParams(url)[i][2] :
        i \in {j \in 1..Len(QueryParams(url)) :
                  /\ QueryParams(url)[j][1] = KEY_redirect_uri
                  /\ QueryParams(url)[j][2] /= <<>>}}

\* the location sent is `chosen` cut at its first "?", then "?" and a query
LocationFrom(location, chosen) ==
    /\ Before(location, "?") = Before(chosen, "?")
    /\ Len(location) > Len(Before(chosen, "?"))

\* C7 as claimed: in the error branch the location is built from a
\* non-empty redirect_uri parameter of the original target when the target
\* carries one, else from the target itself, its query string cut off.
C7_AnyEmbeddedRedirectUri ==
    ErrorBranch
    => IF EmbeddedRedirectUris(OriginalTarget) /= {}
       THEN \E e \in EmbeddedRedirectUris(OriginalTarget) :
               LocationFrom(response.location, e)
       ELSE LocationFrom(response.location, OriginalTarget)

\* C7: in the error branch the location is built from the last
\* redirect_uri parameter of the original target when that one is
\* non-empty, else from the target itself, its query string cut off.
C7_LastEmbeddedRedirectUri ==
    ErrorBranch
    => IF Truthy(LastValue(QueryParams(OriginalTarget), KEY_redirect_uri))
       THEN LocationFrom(response.location,
                         LastValue(QueryParams(OriginalTarget), KEY_redirect_uri))
       ELSE LocationFrom(response.location, OriginalTarget)

\* an IdP error forwarded to the redirect_uri embedded in the stored
\* redirect, whose own query string was cut off
C7_Witness ==
    /\ ErrorBranch
    /\ session.redirect = R_EMBQ
    /\ Before(response.location, "?") /= Before(session.redirect, "?")

\* the code exchange of the last request returned a payload
Exchanged == Len(calls.get_user_id) = 1 /\ calls.get_user_id[1][2]
ExchangeResult == calls.get_user_id[1][3]

\* the last request logged `username` in with the configured email field,
\* and completed unless the user store faulted
CompletesAs(username) ==
    /\ Len(calls.login_user) = 1
    /\ calls.login_user[1][1] = username
    /\ calls.login_user[1][3] = LastValue(ExchangeResult, request.email_field)
    /\ StorageWorked(calls)
       => /\ g.user.username = username
          /\ response.kind \in {"redirect", "json"}

\* the last request failed with UserError(payload) without logging in
FailsWithPayload ==
    /\ response.kind = "raised"
    /\ response.exception = "UserError"
    /\ response.payload = ExchangeResult
    /\ NoLogin(g, calls)

\* C8 as claimed: after the exchange, a payload that contains the username
\* field completes the login as that value; a payload without it fails
\* with the error carrying the payload, with no login, audit or redirect.
C8_UsernamePresent ==
    (request.endpoint = "callback" /\ Exchanged)
    => IF HasKey(ExchangeResult, request.username_field)
       THEN CompletesAs(LastValue(ExchangeResult, request.username_field))
       ELSE FailsWithPayload

\* C8: after the exchange, a payload whose username field is non-empty
\* completes the login as that value; a payload where it is absent or
\* empty fails with the error carrying the payload, with no login, audit
\* or redirect.
C8_UsernameNonEmpty ==
    (request.endpoint = "callback" /\ Exchanged)
    => IF Truthy(LastValue(ExchangeResult, request.username_field))
       THEN CompletesAs(LastValue(ExchangeResult, request.username_field))
       ELSE FailsWithPayload

\* a callback whose payload lacks the configured username field
C8_Witness ==
    /\ request.endpoint = "callback"
    /\ Exchanged
    /\ request.username_field = FIELD_name
    /\ ExchangeResult = << <<FIELD_email, <<>>>> >>
    /\ response.kind = "raised"

\* the last request logged a user in
LoggedIn == g.user /= NoUser

\* registration is required and the logged-in user has not registered
MustRegister ==
    /\ config["REGISTER_USERS_ON"]
    /\ g.user.additional_info["registration_info"] \in {None, <<>>}

\* C9: a login (mock or callback) of a user without registration metadata
\* under REGISTER_USERS_ON answers with the redirect to the registration
\* endpoint, whatever the session's saved redirect.
C9_RegistrationFirst ==
    (LoggedIn /\ MustRegister)
    => /\ response.kind = "redirect"
       /\ response.location = BASE_URL \o REGISTER_PATH

\* a callback login of an unregistered user with a redirect saved
C9_Witness ==
    /\ request.endpoint = "callback"
    /\ LoggedIn
    /\ MustRegister
    /\ session.redirect = R_EMBED
    /\ response.kind = "redirect"

\* C10: a login to which the registration redirect does not apply answers
\* with a redirect to the session's saved redirect when one is saved and
\* non-empty, and otherwise with {"username": u}, u the username the login
\* was called with.
C10_SavedRedirectOrJson ==
    (LoggedIn /\ ~MustRegister)
    => IF session.redirect \notin {None, <<>>}
       THEN response.kind = "redirect" /\ response.location = session.redirect
       ELSE response.kind = "json" /\ response.username = calls.login_user[1][1]

\* a login without redirect argument answered with the redirect an earlier
\* request saved
C10_Witness ==
    /\ LoggedIn
    /\ ~MustRegister
    /\ request.endpoint = "login"
    /\ RedirectArg(request) = None
    /\ response.kind = "redirect"
    /\ response.location = R_DUP

----------------------------------------------------------------------------
(* Properties of map_user_idp_info                                         *)

\* positions of the IdPToUser rows of one sub
RowsOfSub(sub) == {i \in 1..Len(idp_to_users) : idp_to_users[i].sub = sub}

\* the composite sub of a call's arguments
CompositeSub(b) == b.provider \o <<"_">> \o b.idp_sub

\* the call reached the commit of its IdPToUser row
MappingCommitted(b) ==
    \/ b.pc = "returned"
    \/ b.pc = "raised" /\ b.user_to_idp # NoIdPToUser

BindOver(b) == b.pc \in {"returned", "raised"}

\* the IdentityProvider rows of one name
IdpsNamed(name) == {row \in idps : row.name = name}

\* C12: when the first two calls of map_user_idp_info, run in any
\* interleaving of their lookup, insert and commit steps, name the same
\* provider, one that had no row, and both are over, exactly one
\* IdentityProvider row of that name exists and both calls have returned.
C12_ConcurrentFirstUse ==
    ( /\ nbinds = 2
      /\ BindOver(bind[1])
      /\ BindOver(bind[2])
      /\ bind[1].provider = bind[2].provider
      /\ bind[1].idp_sub # bind[2].idp_sub
      /\ \A row \in InitialIdps : row.name # bind[1].provider )
    => /\ Cardinality(IdpsNamed(bind[1].provider)) = 1
       /\ bind[1].pc = "returned"
       /\ bind[2].pc = "returned"

\* C13: no call of map_user_idp_info ends with the store's uniqueness
\* conflict: a refused insert is taken as "already exists" and the call goes
\* on to return.
C13_ConflictNeverPropagates ==
    \A t \in Workers :
        ~(bind[t].pc = "raised" /\ bind[t].exception = "StorageConflict")

\* the table holds the row that maps the call's subject to its user
MappingStored(b) ==
    \E row \in IdpsNamed(b.provider) :
        \E i \in 1..Len(idp_to_users) :
            /\ idp_to_users[i].sub = CompositeSub(b)
            /\ idp_to_users[i].fk_to_idp = row.id
            /\ idp_to_users[i].fk_to_User = b.user_id

\* an IdPToUser row is inserted only under a provider row committed before
ProviderBeforeMapping ==
    Len(idp_to_users') > Len(idp_to_users)
    => /\ Len(idp_to_users') = Len(idp_to_users) + 1
       /\ \E row \in idps :
             idp_to_users'[Len(idp_to_users')].fk_to_idp = row.id

\* a provider row is inserted only for a name that has no row
NoSecondProvider ==
    \A t \in Workers :
        (bind'[t] # bind[t] /\ idps' # idps)
        => /\ IdpsNamed(bind[t].provider) = {}
           /\ \E row \in idps' : /\ row.name = bind[t].provider
                                 /\ idps' = idps \cup {row}

\* C14: map_user_idp_info commits the provider's row before it inserts the
\* IdPToUser row; after every call that returned the store holds an
\* IdentityProvider row named as the call's provider and an IdPToUser row
\* whose sub is provider_subject, whose fk_to_idp is that provider row's id
\* and whose fk_to_User is the user's id; no provider row is created for a
\* name that has one.
C14_ProviderThenMapping ==
    /\ [][ProviderBeforeMapping /\ NoSecondProvider]_vars
    /\ [](\A t \in Workers : bind[t].pc = "returned" => MappingStored(bind[t]))

\* a call for a provider without a row has returned, another found the row
C14_Witness ==
    /\ bind[1].pc = "returned"
    /\ bind[1].provider = PROVIDER_ras
    /\ bind[1].idp.description = "IdP from foreign Passport"
    /\ bind[2].pc = "returned"
    /\ bind[2].provider = PROVIDER_ras
    /\ bind[2].idp = bind[1].idp
    /\ Cardinality(IdpsNamed(PROVIDER_ras)) = 1
    /\ MappingStored(bind[1])
    /\ MappingStored(bind[2])

----------------------------------------------------------------------------
(* Properties of the audit context, of failures and of the saved redirect  *)

\* the request took the mock path of login start or the success branch of
\* the callback, and was answered
LoginAnswered(req, resp) ==
    /\ resp.kind \in {"redirect", "json"}
    /\ \/ req.endpoint = "login" /\ MockEnabled
       \/ req.endpoint = "callback" /\ ~Truthy(FirstValue(req.args, KEY_error))

\* the audit context of a principal under a session
AuditOf(user, sess) ==
    [username |-> user.username, sub |-> user.id, idp |-> idp_name,
     fence_idp |-> sess.fence_idp, shib_idp |-> sess.shib_idp,
     client_id |-> sess.client_id]

\* C15: every request that the mock path of login start or the success
\* branch of the callback answers (registration redirect, saved redirect or
\* JSON body) leaves the audit context holding the logged-in principal's
\* username and id, the handler's idp_name and the session's fence_idp,
\* shib_idp and client_id; a request that fails leaves no audit context; and
\* such a request writes nothing to the session but the redirect login start
\* saves, and nothing to the user store but the principal login_user stored.
C15_AuditContext ==
    [][ /\ LoginAnswered(request', response')
           => /\ g'.user # NoUser
              /\ g'.audit_data = AuditOf(g'.user, session')
              /\ g'.audit_data.username = calls'.login_user[1][1]
              /\ session' = [session EXCEPT !.redirect = session'.redirect]
              /\ session'.redirect \in {session.redirect, RedirectArg(request')}
              /\ users' = users \cup {g'.user}
        /\ response'.kind = "raised" => g'.audit_data = NoAudit
      ]_vars

\* a callback that logged a new user in and answered with the saved redirect
C15_Witness ==
    /\ request.endpoint = "callback"
    /\ response.kind = "redirect"
    /\ response.location = session.redirect
    /\ g.user.username = USER_A
    /\ g.audit_data = AuditOf(g.user, session)
    /\ g.audit_data.fence_idp = FENCE_IDP

\* the request's code exchange failed
ExchangeFailed == Len(calls.get_user_id) >= 1 /\ ~calls.get_user_id[1][2]

\* the request's find-or-create of the user failed
LoginUserFailed == Len(calls.login_user) >= 1 /\ ~calls.login_user[1][4]

\* C16: one request asks the IdP for the code exchange at most once (login
\* start never) and calls login_user, the find-or-create of the user with
\* its storage commit, at most once; when either fails the request fails
\* with that failure at once: after a failed exchange no login is attempted,
\* after either failure no principal and no audit context is set and no
\* response is produced.
C16_NoRetry ==
    /\ Len(calls.get_user_id) <= 1
    /\ Len(calls.login_user) <= 1
    /\ request.endpoint = "login" => calls.get_user_id = <<>>
    /\ ExchangeFailed
       => /\ response.kind = "raised"
          /\ response.exception = "ExchangeError"
          /\ calls.login_user = <<>>
          /\ g = FreshG
    /\ LoginUserFailed
       => /\ response.kind = "raised"
          /\ response.exception = "StorageFault"
          /\ g = FreshG

\* a callback whose exchange worked and whose login_user failed
C16_Witness ==
    /\ request.endpoint = "callback"
    /\ Len(calls.get_user_id) = 1
    /\ calls.get_user_id[1][2]
    /\ LoginUserFailed
    /\ response.exception = "StorageFault"

\* C17: a login start whose redirect parameter is absent or empty passes
\* validation and leaves its session's pending redirect as it was; a login
\* start with a valid non-empty redirect leaves its session's pending
\* redirect equal to that parameter.
C17_RedirectSavedOrKept ==
    \A t \in Workers :
        /\ ~Truthy(logins[t].redirect_url) => logins[t].pc # "raised"
        /\ logins[t].pc \in {"stored", "answered"}
           => logins[t].session.redirect =
                 IF Truthy(logins[t].redirect_url)
                 THEN logins[t].redirect_url
                 ELSE logins[t].session_before

\* C18: when a login that saved the redirect R has been completed and
\* answered, the next login start in that session, sent without a redirect
\* parameter, is not answered with a redirect to R.
C18_RedirectOneRoundTrip ==
    [][ ( /\ request.endpoint = "login"
          /\ Truthy(RedirectArg(request))
          /\ session.redirect = RedirectArg(request)
          /\ LoginAnswered(request, response)
          /\ request'.endpoint = "login"
          /\ ~HasKey(request'.args, KEY_redirect) )
        => ~(response'.kind = "redirect" /\ response'.location = session.redirect)
      ]_vars

\* the bases (the part before the query string) this core may redirect to
ValidatedBases ==
    {AUTH_URL, BASE_URL \o REGISTER_PATH, BASE_URL}
    \cup {Before(url, "?") : url \in AllowedRedirects}

\* C19: every redirect a login start or a callback answers with has as its
\* base (the location without its query string) the IdP's authorization
\* URL, the registration endpoint under BASE_URL, BASE_URL itself or a URL
\* that validate_redirect was given and accepted.
C19_RedirectBaseValidated ==
    response.kind = "redirect" => Before(response.location, "?") \in ValidatedBases

============================================================================
